---- MODULE Spec2Model ----
(***************************************************************************)
(* State-machine model of ethercrab's SlaveGroup (src/src/slave_group.rs): *)
(* one group, its slave list, its process data image (PDI), the            *)
(* configuration walk configure_from_eeprom and the cyclic exchange tx_rx. *)
(*                                                                         *)
(* A SlaveGroupContainer is an array of independent groups; the only thing *)
(* one group passes to the next is the PdiOffset its walk returns.  The    *)
(* model therefore holds one group and lets configure_from_eeprom be       *)
(* called with any starting offset 0..MaxStart: a non-zero offset is the   *)
(* group that is configured after another one.                             *)
(*                                                                         *)
(* Code of the crate that is not part of the sources at hand               *)
(* (SlaveRef::configure_from_eeprom_safe_op / _pre_op, IoRanges,           *)
(* Client::lrw_buf, the PDU loop) is modelled from the written             *)
(* specification and is marked so where it is defined.                     *)
(*                                                                         *)
(* Four specifications: Spec is the group under any calls of push,         *)
(* configure_from_eeprom and tx_rx; SpecCyclic is the group configured     *)
(* once and then read with io and exchanged with tx_rx; SpecPdu is the     *)
(* PDU loop alone, where in Spec the outcome of the one LRW of a tx_rx is  *)
(* an input of TxRx; SpecJog is the steady-state loop of                   *)
(* examples/ec400.rs, where the result of tx_rx is an input of a cycle.    *)
(***************************************************************************)
EXTENDS Integers, Sequences, FiniteSets, TLC

\* ---------------------------------------------------------------- bounds

\* const generic MAX_SLAVES of SlaveGroup, instantiated small
MAX_SLAVES == 2

\* const generic MAX_PDI of SlaveGroup, instantiated small
MAX_PDI == 3

\* const generic MAX_FRAMES of the client's PDU loop, instantiated small
MAX_FRAMES == 2

\* PDU requests made of the loop in one run
MaxRequests == 4

\* starting offsets handed to configure_from_eeprom: 0..MaxStart
MaxStart == 1

\* configure_from_eeprom calls made on the group over a run
MaxConfigs == 2

\* u16 arithmetic of group_working_counter
U16 == 65536

\* (input bytes, output bytes) of the devices that may be discovered
SlaveKinds == {<<1, 0>>, <<0, 2>>, <<1, 1>>}

\* Option::None for a byte range; Some(range) is <<start, end>> (end exclusive)
None == <<>>

PdiIndex == 0 .. (MAX_PDI - 1)

\* LRW responses the network may deliver into the buffer
Responses == {[i \in PdiIndex |-> 1], [i \in PdiIndex |-> i % 2]}

VARIABLES
    slaves,                 \* heapless::Vec<Slave, MAX_SLAVES>
    preop_safeop_hook,      \* TRUE iff the Option holds a hook
    pdi,                    \* [u8; MAX_PDI]
    pdi_len,
    start_address,
    group_working_counter,
    walk,                   \* the configure_from_eeprom call in progress
    last,                   \* the call that completed last, with its result
    nconf,                  \* configure_from_eeprom calls started so far
    frames,                 \* the PDU loop's MAX_FRAMES frame slots
    requests,               \* the PDU requests made of the loop so far
    wire,                   \* the frames on the network, not yet answered
    jog                     \* the example's steady-state loop and its locals

groupVars == <<slaves, preop_safeop_hook, pdi, pdi_len, start_address,
               group_working_counter, walk, last, nconf>>

pduVars == <<frames, requests, wire>>

vars == <<groupVars, pduVars, jog>>

\* ------------------------------------------------------------ the group

\* the fields a configuration walk may write, as a value
GroupState == [start_address |-> start_address,
               group_working_counter |-> group_working_counter,
               pdi_len |-> pdi_len,
               slaves |-> slaves]

NoPre == [start_address |-> 0, group_working_counter |-> 0, pdi_len |-> 0,
          slaves |-> <<>>]

ZeroPdi == [i \in PdiIndex |-> 0]

\* examples/ec400.rs line 287: the loop is entered with velocity 0, nothing
\* exchanged, read, reported or commanded yet
JogStart == [pc |-> "wait", velocity |-> 0, was |-> 0, tx |-> "none",
             status |-> 0, reported |-> -1, cmd |-> <<>>]

\* the correlation indices, one per frame slot
FrameIndex == 0 .. (MAX_FRAMES - 1)

\* a slot nobody holds; resp is the response frame put into the slot
FreeFrame == [state |-> "Free", req |-> 0, resp |-> None]

\* a request as it is made: no index, no result, no response yet
NewRequest == [pc |-> "new", idx |-> -1, res |-> "none", got |-> None,
               released |-> 0]

Idle == [pc |-> "idle", idx |-> 0, offset |-> 0, arg |-> 0, log |-> <<>>,
         pre |-> NoPre]

NoLast == [op |-> "none", res |-> "none", arg |-> 0, ret |-> 0, off |-> 0,
           x |-> 0, y |-> 0, wkc |-> 0, data |-> ZeroPdi, fresh |-> FALSE,
           log |-> <<>>, pre |-> NoPre,
           lrw |-> "none", pdus |-> <<>>,       \* tx_rx: the PDUs it issued
           i |-> None, o |-> None, again |-> FALSE]  \* io: the slices it returned

\* a Slave as the bus scan creates it: no IO ranges yet
NewSlave(kind) == [inLen |-> kind[1], outLen |-> kind[2],
                   input |-> None, output |-> None]

\* SlaveGroup::default / SlaveGroup::new
Init ==
    /\ slaves = <<>>
    /\ preop_safeop_hook \in BOOLEAN
    /\ pdi = ZeroPdi
    /\ pdi_len = 0
    /\ start_address = 0
    /\ group_working_counter = 0
    /\ walk = Idle
    /\ last = NoLast
    /\ nconf = 0
    /\ frames = [i \in FrameIndex |-> FreeFrame]
    /\ requests = <<>>
    /\ wire = {}
    /\ jog = JogStart

PushIgnoresFull(kind) ==
    /\ walk.pc = "idle"
    /\ slaves' = IF Len(slaves) < MAX_SLAVES
                 THEN Append(slaves, NewSlave(kind)) ELSE slaves
    /\ last' = [NoLast EXCEPT !.op = "push", !.res = "Ok",
                                      !.pre = GroupState]
    /\ UNCHANGED <<pduVars, jog>>
    /\ UNCHANGED <<preop_safeop_hook, pdi, pdi_len, start_address,
                   group_working_counter, walk, nconf>>

\* SlaveGroup::push
Push(kind) ==
    /\ walk.pc = "idle"
    /\ IF Len(slaves) < MAX_SLAVES
       THEN /\ slaves' = Append(slaves, NewSlave(kind))
            /\ last' = [NoLast EXCEPT !.op = "push", !.res = "Ok",
                                      !.pre = GroupState]
       ELSE /\ slaves' = slaves
            /\ last' = [NoLast EXCEPT !.op = "push", !.res = "TooManySlaves",
                                      !.pre = GroupState]
    /\ UNCHANGED <<pduVars, jog>>
    /\ UNCHANGED <<preop_safeop_hook, pdi, pdi_len, start_address,
                   group_working_counter, walk, nconf>>

\* ------------------------------------------------- configuration walk

\* IoRanges::working_counter_sum: 1 for an input range, 2 for an output range
working_counter_sum(s) ==
    (IF s.input # None THEN 1 ELSE 0) + (IF s.output # None THEN 2 ELSE 0)

\* SlaveRef::configure_from_eeprom_pre_op: the slave's ranges are laid out
\* back to back from the running offset, inputs first, and the offset
\* advances by what the slave consumed.  Its only arguments are the slave
\* and the running offset.
configure_from_eeprom_pre_op(s, offset) ==
    LET inEnd  == offset + s.inLen
        outEnd == inEnd + s.outLen
    IN  [slave  |-> [s EXCEPT
                       !.input  = IF s.inLen  > 0 THEN <<offset, inEnd>> ELSE None,
                       !.output = IF s.outLen > 0 THEN <<inEnd, outEnd>> ELSE None],
         offset |-> outEnd]

SetStartAddressMissing(old, offset) == old

\* line 185: *self.start_address = offset.start_address
SetStartAddress(old, offset) == offset

PdiLenOfAbsolute(offset, start) == offset

\* line 214: let pdi_len = (offset.start_address - *self.start_address) as usize
PdiLenOf(offset, start) == offset - start

PdiTooLongAtCapacity(len) == len >= MAX_PDI

\* line 216: if pdi_len > self.max_pdi_len
PdiTooLong(len) == len > MAX_PDI

\* line 211: *self.group_working_counter += slave.config.io.working_counter_sum()
AddWorkingCounter(gwc, s) == (gwc + working_counter_sum(s)) % U16

NextOffsetNotThreaded(offset, new_offset) == offset

\* line 209: offset = new_offset
NextOffset(offset, new_offset) == new_offset

AfterSafeOpSkipsHook(hook) == "pre_op"

\* lines 199-205: the hook runs next when the group has one, else PRE-OP
AfterSafeOp(hook) == IF hook THEN "hook" ELSE "pre_op"

\* lines 214-225: the code after the loop.  `offset` is the running offset,
\* `start` the group's start_address as the walk has set it.
AfterLoop(offset, start, arg, log, pre) ==
    LET len == PdiLenOf(offset, start)
        res == [NoLast EXCEPT !.op = "configure", !.arg = arg, !.off = offset,
                              !.log = log, !.pre = pre]
    IN  /\ walk' = Idle
        /\ IF PdiTooLong(len)
           THEN /\ pdi_len' = pdi_len
                /\ last' = [res EXCEPT !.res = "PdiTooLong",
                                       !.x = MAX_PDI, !.y = len]
           ELSE /\ pdi_len' = len
                /\ last' = [res EXCEPT !.res = "Ok", !.ret = offset]

AbortSwallowed(log) ==
    IF walk.idx < Len(slaves)
    THEN /\ walk' = [walk EXCEPT !.pc = "safe_op", !.idx = walk.idx + 1,
                                 !.log = log]
         /\ last' = last
    ELSE /\ walk' = Idle
         /\ last' = [NoLast EXCEPT !.op = "configure", !.res = "Failed",
                                   !.arg = walk.arg, !.off = walk.offset,
                                   !.log = log, !.pre = walk.pre]

\* an awaited step returned Err: `?` returns it from configure_from_eeprom
Abort(log) ==
    /\ walk' = Idle
    /\ last' = [NoLast EXCEPT !.op = "configure", !.res = "Failed",
                              !.arg = walk.arg, !.off = walk.offset,
                              !.log = log, !.pre = walk.pre]

\* lines 185-187: the call starts; with no slaves the loop body never runs
\* and the call completes without suspending
ConfigureStart(off) ==
    /\ walk.pc = "idle"
    /\ nconf < MaxConfigs
    /\ nconf' = nconf + 1
    /\ start_address' = SetStartAddress(start_address, off)
    /\ IF slaves = <<>>
       THEN AfterLoop(off, start_address', off, <<>>, GroupState)
       ELSE /\ walk' = [pc |-> "safe_op", idx |-> 1, offset |-> off,
                        arg |-> off, log |-> <<>>, pre |-> GroupState]
            /\ last' = NoLast
            /\ pdi_len' = pdi_len
    /\ UNCHANGED <<pduVars, jog>>
    /\ UNCHANGED <<slaves, preop_safeop_hook, pdi, group_working_counter>>

\* line 195: slave_ref.configure_from_eeprom_safe_op().await?
SafeOp(ok) ==
    /\ walk.pc = "safe_op"
    /\ LET log == Append(walk.log, <<"safe_op", walk.idx, ok>>)
       IN  IF ok
           THEN /\ walk' = [walk EXCEPT !.pc = AfterSafeOp(preop_safeop_hook),
                                        !.log = log]
                /\ last' = last
           ELSE Abort(log)
    /\ UNCHANGED <<pduVars, jog>>
    /\ UNCHANGED <<slaves, preop_safeop_hook, pdi, pdi_len, start_address,
                   group_working_counter, nconf>>

\* lines 199-201: (hook)(&slave_ref).await?
Hook(ok) ==
    /\ walk.pc = "hook"
    /\ LET log == Append(walk.log, <<"hook", walk.idx, ok>>)
       IN  IF ok
           THEN /\ walk' = [walk EXCEPT !.pc = "pre_op", !.log = log]
                /\ last' = last
           ELSE Abort(log)
    /\ UNCHANGED <<pduVars, jog>>
    /\ UNCHANGED <<slaves, preop_safeop_hook, pdi, pdi_len, start_address,
                   group_working_counter, nconf>>

\* lines 205-212, and lines 214-225 after the last slave
PreOp(ok) ==
    /\ walk.pc = "pre_op"
    /\ LET log == Append(walk.log, <<"pre_op", walk.idx, ok>>)
           r   == configure_from_eeprom_pre_op(slaves[walk.idx], walk.offset)
       IN  IF ok
           THEN /\ slaves' = [slaves EXCEPT ![walk.idx] = r.slave]
                /\ group_working_counter' =
                       AddWorkingCounter(group_working_counter, r.slave)
                /\ IF walk.idx < Len(slaves)
                   THEN /\ walk' = [walk EXCEPT !.pc = "safe_op",
                                                !.idx = walk.idx + 1,
                                                !.offset = NextOffset(walk.offset, r.offset),
                                                !.log = log]
                        /\ last' = last
                        /\ pdi_len' = pdi_len
                   ELSE AfterLoop(NextOffset(walk.offset, r.offset),
                                  start_address, walk.arg, log, walk.pre)
           ELSE /\ Abort(log)
                /\ UNCHANGED <<slaves, group_working_counter, pdi_len>>
    /\ UNCHANGED <<pduVars, jog>>
    /\ UNCHANGED <<preop_safeop_hook, pdi, start_address, nconf>>

\* ------------------------------------------------------ cyclic exchange

\* Client::lrw_buf on success: the response bytes are copied into the buffer
\* it was handed
lrw_buf(buf, resp) == resp

PdiRolledBack(old, resp, wkc, gwc) == IF wkc # gwc THEN old ELSE resp

\* lines 136-147: what the buffer holds when tx_rx returns after a response;
\* neither branch of the working counter comparison touches it
PdiAfterTxRx(old, resp, wkc, gwc) == lrw_buf(old, resp)

TxRxAcceptsLarger(wkc, gwc) ==
    IF wkc < gwc
    THEN [res |-> "WorkingCounter", expected |-> gwc, received |-> wkc]
    ELSE [res |-> "Ok", expected |-> 0, received |-> 0]

\* lines 138-146: the working counter comparison and the error it builds
TxRxResult(wkc, gwc) ==
    IF wkc # gwc
    THEN [res |-> "WorkingCounter", expected |-> gwc, received |-> wkc]
    ELSE [res |-> "Ok", expected |-> 0, received |-> 0]

TxRxRetries(outcome, address) ==
    IF outcome = "Ok"
    THEN <<<<address, MAX_PDI>>>>
    ELSE <<<<address, MAX_PDI>>, <<address, MAX_PDI>>>>

\* line 136: the PDUs one call issues, each <<logical address, length>>:
\* one LRW at start_address over the whole buffer self.pdi() returns
TxRxPdus(outcome, address) == <<<<address, MAX_PDI>>>>

\* SlaveGroup::tx_rx.  `outcome` is how the LRW PDU ended: "Ok" with working
\* counter `wkc` and data `resp`, or a transport error, which `?` returns.
TxRx(outcome, wkc, resp) ==
    /\ walk.pc = "idle"
    /\ IF outcome = "Ok"
       THEN LET r == TxRxResult(wkc, group_working_counter)
            IN  /\ pdi' = PdiAfterTxRx(pdi, resp, wkc, group_working_counter)
                /\ last' = [NoLast EXCEPT
                              !.op = "tx_rx", !.res = r.res,
                              !.x = r.expected, !.y = r.received,
                              !.wkc = wkc, !.data = resp,
                              !.fresh = (resp # pdi), !.lrw = outcome,
                              !.pdus = TxRxPdus(outcome, start_address)]
       ELSE /\ pdi' = pdi
            /\ last' = [NoLast EXCEPT !.op = "tx_rx", !.res = outcome,
                                      !.data = pdi, !.lrw = outcome,
                                      !.pdus = TxRxPdus(outcome, start_address)]
    /\ UNCHANGED <<pduVars, jog>>
    /\ UNCHANGED <<slaves, preop_safeop_hook, pdi_len, start_address,
                   group_working_counter, walk, nconf>>

\* ------------------------------------------------------------------ io

\* <[u8]>::get / get_mut with a range on the MAX_PDI byte buffer: None when
\* the range is reversed or ends past the buffer
SliceGet(range) ==
    IF range[1] <= range[2] /\ range[2] <= MAX_PDI THEN range ELSE None

IoNeedsRanges(idx) ==
    IF idx >= Len(slaves)
       \/ (slaves[idx + 1].input = None /\ slaves[idx + 1].output = None)
    THEN [found |-> FALSE, i |-> None, o |-> None]
    ELSE LET s == slaves[idx + 1]
         IN  [found |-> TRUE,
              i |-> IF s.input  = None THEN None ELSE SliceGet(s.input),
              o |-> IF s.output = None THEN None ELSE SliceGet(s.output)]

\* SlaveGroup::io, lines 109-127: the (input, output) slices of slave idx
\* (counted from 0), each given as the byte range of the buffer it covers
Io(idx) ==
    IF idx >= Len(slaves)
    THEN [found |-> FALSE, i |-> None, o |-> None]
    ELSE LET s == slaves[idx + 1]
         IN  [found |-> TRUE,
              i |-> IF s.input  = None THEN None ELSE SliceGet(s.input),
              o |-> IF s.output = None THEN None ELSE SliceGet(s.output)]

\* the buffer bytes a slice covers
SliceBytes(slice) == IF slice = None THEN {} ELSE slice[1] .. (slice[2] - 1)

\* what a call of io records: the Option it returned and the slices in it
IoResult(idx) ==
    LET r == Io(idx)
    IN  [NoLast EXCEPT !.op = "io", !.arg = idx,
                       !.res = IF r.found THEN "Some" ELSE "None",
                       !.i = r.i, !.o = r.o,
                       !.again = (last.op = "io" /\ last.arg = idx)]

IoCallClearsOutput(idx) ==
    /\ walk.pc = "idle"
    /\ last' = IoResult(idx)
    /\ pdi' = [k \in PdiIndex |-> IF k \in SliceBytes(Io(idx).o) THEN 0 ELSE pdi[k]]
    /\ UNCHANGED <<pduVars, jog>>
    /\ UNCHANGED <<slaves, preop_safeop_hook, pdi_len, start_address,
                   group_working_counter, walk, nconf>>

IoCallTakesRanges(idx) ==
    /\ walk.pc = "idle"
    /\ last' = IoResult(idx)
    /\ slaves' = IF idx < Len(slaves)
                 THEN [slaves EXCEPT ![idx + 1].input = None,
                                     ![idx + 1].output = None]
                 ELSE slaves
    /\ UNCHANGED <<pduVars, jog>>
    /\ UNCHANGED <<preop_safeop_hook, pdi, pdi_len, start_address,
                   group_working_counter, walk, nconf>>

\* a call of SlaveGroup::io (&self): it returns and writes nothing
IoCall(idx) ==
    /\ walk.pc = "idle"
    /\ last' = IoResult(idx)
    /\ UNCHANGED <<pduVars, jog>>
    /\ UNCHANGED <<slaves, preop_safeop_hook, pdi, pdi_len, start_address,
                   group_working_counter, walk, nconf>>

\* ------------------------------------------------------------ PDU loop
\* The client's PDU loop.  A request takes a free frame slot, whose number is
\* its correlation index (Free -> Building), its frame is sent (-> Sent), and
\* it completes by the response (-> Received -> Consumed) or by its timeout
\* (Sent -> Consumed); a Consumed slot is Free again.  A frame on the wire is
\* <<index, request>>; the request is not part of the frame's bytes, it only
\* records whose frame it is.

AnySlot == FrameIndex

\* the slots a new request may take
FreeSlots == {i \in FrameIndex : frames[i].state = "Free"}

\* the requests made so far, numbered in the order they were made
Requests == 1 .. Len(requests)

\* the requests holding a slot
InFlight == {r \in Requests : requests[r].pc \in {"building", "waiting"}}

RefuseSuspends ==
    /\ requests' = Append(requests, [NewRequest EXCEPT !.pc = "waiting"])
    /\ UNCHANGED <<frames, wire>>

\* no slot is free: the request fails at once
Refuse ==
    /\ requests' = Append(requests, [NewRequest EXCEPT
                                        !.pc = "done",
                                        !.res = "NoAvailableFrames"])
    /\ UNCHANGED <<frames, wire>>

\* a caller asks for a PDU
Acquire ==
    /\ Len(requests) < MaxRequests
    /\ IF FreeSlots = {}
       THEN Refuse
       ELSE \E i \in FreeSlots :
                /\ frames' = [frames EXCEPT ![i] = [state |-> "Building",
                                                    req |-> Len(requests) + 1,
                                                    resp |-> None]]
                /\ requests' = Append(requests, [NewRequest EXCEPT
                                                    !.pc = "building",
                                                    !.idx = i])
                /\ wire' = wire
    /\ UNCHANGED <<groupVars, jog>>

\* the TX task puts the built frame on the network
Send(r) ==
    /\ r \in Requests
    /\ requests[r].pc = "building"
    /\ frames' = [frames EXCEPT ![requests[r].idx].state = "Sent"]
    /\ requests' = [requests EXCEPT ![r].pc = "waiting"]
    /\ wire' = wire \cup {<<requests[r].idx, r>>}
    /\ UNCHANGED <<groupVars, jog>>

\* a response is matched by its index against the slot's current state
Accepts(f) == frames[f[1]].state = "Sent"

\* the RX task gets the response to frame f: it completes the slot of f's
\* index if that slot awaits a response, and is dropped as stale otherwise
Deliver(f) ==
    /\ f \in wire
    /\ wire' = wire \ {f}
    /\ frames' = IF Accepts(f)
                 THEN [frames EXCEPT ![f[1]].state = "Received",
                                     ![f[1]].resp = f]
                 ELSE frames
    /\ UNCHANGED requests
    /\ UNCHANGED <<groupVars, jog>>

\* the waiting request is woken with the response and releases its slot
Consume(r) ==
    /\ r \in Requests
    /\ requests[r].pc = "waiting"
    /\ requests[r].idx \in FrameIndex
    /\ frames[requests[r].idx].state = "Received"
    /\ frames[requests[r].idx].req = r
    /\ frames' = [frames EXCEPT ![requests[r].idx] = FreeFrame]
    /\ requests' = [requests EXCEPT ![r].pc = "done", ![r].res = "Ok",
                                    ![r].got = frames[requests[r].idx].resp,
                                    ![r].released = @ + 1]
    /\ wire' = wire
    /\ UNCHANGED <<groupVars, jog>>

\* the request's timer fires before a response came: the slot is reclaimed
Timeout(r) ==
    /\ r \in Requests
    /\ requests[r].pc = "waiting"
    /\ requests[r].idx \in FrameIndex
    /\ frames[requests[r].idx].state = "Sent"
    /\ frames[requests[r].idx].req = r
    /\ frames' = [frames EXCEPT ![requests[r].idx] = FreeFrame]
    /\ requests' = [requests EXCEPT ![r].pc = "done", ![r].res = "Timeout",
                                    ![r].released = @ + 1]
    /\ wire' = wire
    /\ UNCHANGED <<groupVars, jog>>

\* ------------------------------------------------- example: jog loop
\* The steady-state loop of examples/ec400.rs (lines 286-324) for slave 0,
\* the drive whose PDOs the hook mapped.  What tx_rx returns and the status
\* bytes it leaves in the slave's inputs are inputs of a cycle.

\* lines 319-320
VelocityLimit == 200000

VelocityStep == 200

\* StatusWord::FAULT = 1 << 3
FAULT == 8

\* bytes of slave 0's inputs and outputs after the hook's PDO mapping:
\* status u16, position i32, velocity i32; control u16, target velocity i32
InputsLen == 10

OutputsLen == 6

\* low and high byte of the status words a drive reports, with and without
\* the fault bit (8 in the low byte)
StatusLow == {39, 47, 8}

StatusHigh == {0, 2}

\* u16::from_le_bytes(i[0..=1])
StatusFromLe(b0, b1) == b0 + 256 * b1

\* StatusWord::contains(FAULT)
Fault(status) == (status \div FAULT) % 2 = 1

\* i32::to_le_bytes, of a value that is not negative
ToLeBytes(v) == <<v % 256, (v \div 256) % 256, (v \div 65536) % 256,
                 (v \div 16777216) % 256>>

\* lines 319-321: if velocity < 200_000 { velocity += 200 }
NextVelocity(v) == IF v < VelocityLimit THEN v + VelocityStep ELSE v

HaltOnFault(status) == IF Fault(status) THEN "panicked" ELSE "wait"

\* lines 303-322: the status is printed and nothing is decided on it; the
\* loop goes on to await its next tick
AfterReport(status) == "wait"

\* what tx_rx may return to the loop
TxRxOutcomes == {"Ok", "WorkingCounter", "Timeout", "NoAvailableFrames"}

\* line 291: cyclic_interval.next().await yields the next tick
JogTick ==
    /\ jog.pc = "wait"
    /\ jog' = [jog EXCEPT !.pc = "tx_rx"]
    /\ UNCHANGED <<groupVars, pduVars>>

\* lines 292-321: .expect panics on any Err of tx_rx; otherwise the inputs
\* are parsed, the status is printed, the velocity is written to o[2..=5]
\* and then stepped.  The slicings and unwraps panic on a slave with fewer
\* input or output bytes than the loop reads and writes.
JogCycle(outcome, b0, b1) ==
    /\ jog.pc = "tx_rx"
    /\ IF outcome # "Ok" \/ InputsLen < 10 \/ OutputsLen < 6
       THEN jog' = [jog EXCEPT !.pc = "panicked", !.tx = outcome]
       ELSE LET status == StatusFromLe(b0, b1)
            IN  jog' = [pc |-> AfterReport(status),
                        velocity |-> NextVelocity(jog.velocity),
                        was |-> jog.velocity,
                        tx |-> "Ok",
                        status |-> status,
                        reported |-> status,
                        cmd |-> ToLeBytes(jog.velocity)]
    /\ UNCHANGED <<groupVars, pduVars>>

\* ------------------------------------------------------------- claims

RECURSIVE SumWkc(_)
\* sum over the slaves of (1 if it has inputs) + (2 if it has outputs)
SumWkc(ss) ==
    IF ss = <<>> THEN 0
    ELSE (IF Head(ss).inLen > 0 THEN 1 ELSE 0)
         + (IF Head(ss).outLen > 0 THEN 2 ELSE 0)
         + SumWkc(Tail(ss))

RECURSIVE SumIo(_)
\* sum over the slaves of their input and output sizes
SumIo(ss) ==
    IF ss = <<>> THEN 0
    ELSE Head(ss).inLen + Head(ss).outLen + SumIo(Tail(ss))

ConfigureDone == last.op = "configure"

ConfigureOk == last.op = "configure" /\ last.res = "Ok"

\* C1: a tx_rx whose LRW completed with working counter w returned Ok iff
\* w = group_working_counter, and otherwise Error::WorkingCounter with
\* expected = group_working_counter and received = w.
C1_TxRxWorkingCounter ==
    (last.op = "tx_rx" /\ last.res \in {"Ok", "WorkingCounter"}) =>
        /\ (last.res = "Ok") <=> (last.wkc = group_working_counter)
        /\ last.res = "WorkingCounter" =>
               /\ last.x = group_working_counter
               /\ last.y = last.wkc

\* expected 3, network reports 2
C1_Witness ==
    /\ last.op = "tx_rx"
    /\ last.res = "WorkingCounter"
    /\ last.x = 3
    /\ last.y = 2

\* C2: when tx_rx failed with Error::WorkingCounter the PDI buffer holds the
\* bytes the LRW response delivered, not the pre-call contents.
C2_PdiHoldsResponse ==
    (last.op = "tx_rx" /\ last.res = "WorkingCounter") => pdi = last.data

C2_Witness ==
    /\ last.op = "tx_rx"
    /\ last.res = "WorkingCounter"
    /\ last.fresh
    /\ pdi = last.data

\* C3: after every configure_from_eeprom that returned Ok, whatever calls
\* came before on the group, group_working_counter is the sum over the
\* slaves of (1 if inputs) + (2 if outputs).
C3_WorkingCounterIsSum ==
    ConfigureOk => group_working_counter = SumWkc(slaves)

\* C4: after a successful walk pdi_len is the sum of the slaves' input and
\* output sizes, which is also the returned offset minus the start address.
C4_PdiLenIsSum ==
    ConfigureOk =>
        /\ pdi_len = SumIo(slaves)
        /\ pdi_len = last.ret - start_address

C4_Witness ==
    /\ ConfigureOk
    /\ Len(slaves) = 2
    /\ start_address = 1
    /\ pdi_len = 3

\* a range lies inside the part of the buffer the group uses
InsidePdi(range) ==
    range # None => (0 <= range[1] /\ range[1] <= range[2] /\ range[2] <= pdi_len)

Disjoint(r1, r2) == SliceBytes(r1) \cap SliceBytes(r2) = {}

\* C5: after a successful walk, also of a group that does not start at 0,
\* every slave's input and output range lies inside [0, pdi_len) of the
\* group's own buffer and no two ranges of one direction overlap.
C5_RangesInsidePdi ==
    ConfigureOk =>
        /\ \A k \in 1 .. Len(slaves) :
               InsidePdi(slaves[k].input) /\ InsidePdi(slaves[k].output)
        /\ \A j, k \in 1 .. Len(slaves) :
               j # k =>
                   /\ Disjoint(slaves[j].input, slaves[k].input)
                   /\ Disjoint(slaves[j].output, slaves[k].output)

\* C6: whenever io can be called, the input slice and the mutable output
\* slice of a slave share no byte, and the mutable output slice of a slave
\* shares no byte with another slave's input or output slice.
C6_IoSlicesDisjoint ==
    walk.pc = "idle" =>
        \A j, k \in 0 .. (Len(slaves) - 1) :
            /\ Disjoint(Io(j).i, Io(j).o)
            /\ j # k =>
                   /\ Disjoint(Io(j).o, Io(k).i)
                   /\ Disjoint(Io(j).o, Io(k).o)

\* C7: once all slaves are walked, the walk fails with PdiTooLong{desired =
\* MAX_PDI, required = total} exactly when the total consumed length, the
\* final offset minus the start address, exceeds MAX_PDI.
C7_PdiTooLong ==
    (ConfigureDone /\ last.res \in {"Ok", "PdiTooLong"}) =>
        LET total == last.off - start_address
        IN  /\ total > MAX_PDI =>
                   /\ last.res = "PdiTooLong"
                   /\ last.x = MAX_PDI
                   /\ last.y = total
            /\ total <= MAX_PDI => last.res = "Ok"

\* the slaves need one byte more than the capacity
C7_Witness ==
    /\ ConfigureDone
    /\ last.res = "PdiTooLong"
    /\ last.x = MAX_PDI
    /\ last.y = MAX_PDI + 1
    /\ SumIo(slaves) = MAX_PDI + 1

\* C8: when the walk failed with PdiTooLong, start_address,
\* group_working_counter, pdi_len and every slave's ranges are what they
\* were before the call.
C8_NoPartialState ==
    (ConfigureDone /\ last.res = "PdiTooLong") => GroupState = last.pre

\* C9: a walk of a group without slaves succeeds from any starting offset,
\* runs no step and no hook, makes pdi_len 0, leaves group_working_counter,
\* sets start_address to the starting offset and returns that offset.
C9_EmptyGroup ==
    (ConfigureDone /\ slaves = <<>>) =>
        /\ last.res = "Ok"
        /\ last.log = <<>>
        /\ pdi_len = 0
        /\ group_working_counter = last.pre.group_working_counter
        /\ start_address = last.arg
        /\ last.ret = last.arg

C9_Witness ==
    /\ ConfigureDone
    /\ slaves = <<>>
    /\ last.arg = 1
    /\ last.res = "Ok"
    /\ preop_safeop_hook

\* the steps of one slave, in order
StepCycle(hook) ==
    IF hook THEN <<"safe_op", "hook", "pre_op">> ELSE <<"safe_op", "pre_op">>

\* the log is a prefix of: all steps of slave 1, all steps of slave 2, ...;
\* only its last step may have failed
OrderedLog(log, hook) ==
    LET cyc == StepCycle(hook)
        n   == Len(cyc)
    IN  \A i \in 1 .. Len(log) :
            /\ log[i][1] = cyc[((i - 1) % n) + 1]
            /\ log[i][2] = ((i - 1) \div n) + 1
            /\ i < Len(log) => log[i][3]

\* C10: in a walk the hook of a group that has one runs once per slave,
\* after that slave's SAFE-OP step succeeded and before its PRE-OP step,
\* never for a slave whose SAFE-OP step failed, and the steps of slave k
\* are over before those of slave k+1 begin.
C10_HookOrder ==
    /\ walk.pc # "idle" => OrderedLog(walk.log, preop_safeop_hook)
    /\ ConfigureDone =>
           /\ OrderedLog(last.log, preop_safeop_hook)
           /\ last.res \in {"Ok", "PdiTooLong"} =>
                  /\ Len(last.log) = Len(StepCycle(preop_safeop_hook)) * Len(slaves)
                  /\ \A i \in 1 .. Len(last.log) : last.log[i][3]

C10_Witness ==
    /\ ConfigureOk
    /\ preop_safeop_hook
    /\ Len(slaves) = 2
    /\ last.log = <<<<"safe_op", 1, TRUE>>, <<"hook", 1, TRUE>>, <<"pre_op", 1, TRUE>>,
                    <<"safe_op", 2, TRUE>>, <<"hook", 2, TRUE>>, <<"pre_op", 2, TRUE>>>>

\* C11: a push on a group that already holds MAX_SLAVES slaves returns
\* Error::TooManySlaves and leaves the list as it was; any other push returns
\* Ok and appends the new slave behind the ones already there; the list never
\* holds more than MAX_SLAVES slaves.
C11_PushBounded ==
    /\ Len(slaves) <= MAX_SLAVES
    /\ last.op = "push" =>
           LET before == last.pre.slaves
           IN  IF Len(before) >= MAX_SLAVES
               THEN last.res = "TooManySlaves" /\ slaves = before
               ELSE /\ last.res = "Ok"
                    /\ Len(slaves) = Len(before) + 1
                    /\ SubSeq(slaves, 1, Len(before)) = before
                    /\ slaves[Len(slaves)] \in {NewSlave(k) : k \in SlaveKinds}

C11_Witness ==
    /\ last.op = "push"
    /\ last.res = "TooManySlaves"
    /\ Len(slaves) = MAX_SLAVES

\* C12: io(idx) returned None exactly when idx is not below the number of
\* pushed slaves; for a pushed slave it returned Some, and a side of the pair
\* is None when the slave has no range of that direction.
C12_IoSomeIffPushed ==
    last.op = "io" =>
        /\ (last.res = "None") <=> (last.arg >= Len(slaves))
        /\ last.arg < Len(slaves) =>
               /\ last.res = "Some"
               /\ slaves[last.arg + 1].input = None => last.i = None
               /\ slaves[last.arg + 1].output = None => last.o = None

C12_Witness ==
    /\ last.op = "io"
    /\ last.res = "Some"
    /\ last.arg = 1
    /\ last.i = None
    /\ last.o # None

\* the bytes of the buffer `buf` a returned slice shows
SliceContents(slice, buf) == [k \in SliceBytes(slice) |-> buf[k]]

\* C13: a call of io changes no byte of the PDI and nothing of the group or
\* its slaves, and a call of io directly after a call of io with the same
\* index returns the same Option with slices over the same byte ranges and
\* the same contents.
C13_IoRepeatable ==
    [][last'.op = "io" =>
          /\ UNCHANGED <<slaves, preop_safeop_hook, pdi, pdi_len,
                         start_address, group_working_counter>>
          /\ (last.op = "io" /\ last.arg = last'.arg) =>
                 /\ last'.res = last.res
                 /\ last'.i = last.i
                 /\ last'.o = last.o
                 /\ SliceContents(last'.i, pdi') = SliceContents(last.i, pdi)
                 /\ SliceContents(last'.o, pdi') = SliceContents(last.o, pdi)]_vars

C13_Witness ==
    /\ last.op = "io"
    /\ last.again
    /\ last.res = "Some"
    /\ last.i # None
    /\ last.o # None
    /\ pdi # ZeroPdi

\* C14: whatever the interleaving of concurrent requests, no two requests in
\* flight hold the same correlation index, at most MAX_FRAMES are in flight,
\* and a response is put into the slot of its own index and consumed by the
\* one request that holds that index.
C14_IndexUnique ==
    /\ Cardinality(InFlight) <= MAX_FRAMES
    /\ \A r1, r2 \in InFlight :
           r1 # r2 => requests[r1].idx # requests[r2].idx
    /\ \A i \in FrameIndex :
           frames[i].state = "Received" =>
               /\ frames[i].resp[1] = i
               /\ frames[i].req \in InFlight
               /\ requests[frames[i].req].idx = i
    /\ \A r \in Requests :
           requests[r].res = "Ok" =>
               /\ requests[r].got # None
               /\ requests[r].got[1] = requests[r].idx

C14_Witness ==
    /\ Cardinality(InFlight) = MAX_FRAMES
    /\ \E i \in FrameIndex : frames[i].state = "Received"
    /\ \E r \in Requests : requests[r].res = "Ok"

C16_NoAvailableFrames ==
    [][(/\ Len(requests') = Len(requests) + 1
        /\ \A i \in FrameIndex : frames[i].state # "Free") =>
           /\ requests'[Len(requests')].pc = "done"
           /\ requests'[Len(requests')].res = "NoAvailableFrames"
           /\ frames' = frames
           /\ wire' = wire
           /\ SubSeq(requests', 1, Len(requests)) = requests]_vars

C16_Witness ==
    /\ \E r \in Requests : requests[r].res = "NoAvailableFrames"
    /\ \A i \in FrameIndex : frames[i].state = "Sent"

\* where a configured slave's ranges begin and end in the address space
SlaveStart(s) == IF s.input # None THEN s.input[1] ELSE s.output[1]

SlaveEnd(s) == IF s.output # None THEN s.output[2] ELSE s.input[2]

\* C17: configure_from_eeprom sets start_address to the offset it was given;
\* the first slave's PRE-OP step gets that offset, each later slave's gets
\* the offset the slave before it returned, and a successful walk returns the
\* offset the last slave returned.
C17_OffsetThreaded ==
    /\ walk.pc # "idle" =>
           /\ start_address = walk.arg
           /\ walk.idx = 1 => walk.offset = walk.arg
           /\ walk.idx > 1 => walk.offset = SlaveEnd(slaves[walk.idx - 1])
    /\ (ConfigureDone /\ last.res \in {"Ok", "PdiTooLong"}) =>
           /\ start_address = last.arg
           /\ slaves # <<>> => SlaveStart(slaves[1]) = last.arg
           /\ \A k \in 1 .. (Len(slaves) - 1) :
                  SlaveStart(slaves[k + 1]) = SlaveEnd(slaves[k])
           /\ (last.res = "Ok" /\ slaves # <<>>) =>
                  last.ret = SlaveEnd(slaves[Len(slaves)])

C17_Witness ==
    /\ ConfigureOk
    /\ Len(slaves) = MAX_SLAVES
    /\ last.arg = MaxStart
    /\ last.ret > SlaveStart(slaves[MAX_SLAVES])
    /\ SlaveStart(slaves[MAX_SLAVES]) > last.arg

\* C18: every tx_rx issued exactly one LRW PDU, at start_address and over the
\* whole PDI buffer, whatever its outcome; when that PDU failed with a
\* transport error tx_rx returned that error, never a working-counter error.
C18_OneLrw ==
    last.op = "tx_rx" =>
        /\ Len(last.pdus) = 1
        /\ last.pdus[1] = <<start_address, MAX_PDI>>
        /\ last.lrw # "Ok" => last.res = last.lrw
        /\ last.lrw = "Ok" => last.res \in {"Ok", "WorkingCounter"}

C18_Witness ==
    /\ last.op = "tx_rx"
    /\ last.lrw = "Timeout"
    /\ last.res = "Timeout"
    /\ last.pdus = <<<<MaxStart, MAX_PDI>>>>
    /\ group_working_counter > 0

\* C19: when a step of slave k failed, the walk ended there: the failed step
\* is the last one made, no step of a later slave ran, the working counter
\* holds the contributions of the slaves before k only, and pdi_len is what
\* it was before the call.
C19_FailureStopsWalk ==
    (ConfigureDone /\ last.res = "Failed") =>
        LET n == Len(last.log)
        IN  /\ n > 0
            /\ ~last.log[n][3]
            /\ \A j \in 1 .. (n - 1) :
                   last.log[j][3] /\ last.log[j][2] <= last.log[n][2]
            /\ pdi_len = last.pre.pdi_len
            /\ group_working_counter =
                   (last.pre.group_working_counter
                    + SumWkc(SubSeq(slaves, 1, last.log[n][2] - 1))) % U16

C19_Witness ==
    /\ ConfigureDone
    /\ last.res = "Failed"
    /\ Len(last.log) > 0
    /\ last.log[Len(last.log)] = <<"pre_op", 2, FALSE>>
    /\ group_working_counter > last.pre.group_working_counter

\* C20: a call of tx_rx or io leaves the slave list, every slave's ranges,
\* start_address, pdi_len and group_working_counter as they were.
C20_CyclicKeepsConfiguration ==
    [][last'.op \in {"tx_rx", "io"} =>
          UNCHANGED <<slaves, start_address, pdi_len,
                      group_working_counter>>]_vars

C20_Witness ==
    /\ last.op = "tx_rx"
    /\ last.res = "Ok"
    /\ last.fresh
    /\ Len(slaves) = MAX_SLAVES
    /\ pdi_len > 0
    /\ group_working_counter > 0

\* u32::from_le_bytes read back, to compare a command with a velocity
FromLeBytes(b) == b[1] + 256 * b[2] + 65536 * b[3] + 16777216 * b[4]

\* C21: in the steady-state loop a status word with the FAULT bit does not
\* stop the loop: after every tx_rx that returned Ok the status read is the
\* status reported and the loop awaits its next tick, fault or not; the loop
\* has stopped exactly when a tx_rx returned an error; the velocity written
\* to the outputs is the one before the step, the step adds 200 while the
\* velocity is below 200000, and the velocity never exceeds 200000.
C21_FaultDoesNotStop ==
    /\ jog.pc \in {"wait", "tx_rx", "panicked"}
    /\ (jog.pc = "panicked") <=> (jog.tx \notin {"none", "Ok"})
    /\ jog.velocity \in 0 .. VelocityLimit
    /\ jog.tx = "Ok" =>
           /\ jog.reported = jog.status
           /\ FromLeBytes(jog.cmd) = jog.was
           /\ jog.velocity = IF jog.was < VelocityLimit
                             THEN jog.was + VelocityStep ELSE jog.was

C21_Witness ==
    /\ jog.pc = "tx_rx"
    /\ jog.tx = "Ok"
    /\ Fault(jog.reported)
    /\ jog.was = VelocityLimit
    /\ jog.velocity = VelocityLimit

\* ---------------------------------------------------- specification

LrwOutcomes == {"Ok", "Timeout", "NoAvailableFrames"}

\* the working counter a completed LRW carries: the one the group expects,
\* one short (a slave did not answer) or one over
WkcMiss == {-1, 0, 1}

ReceivedWkc(d) ==
    IF group_working_counter + d < 0 THEN 0 ELSE group_working_counter + d

Next ==
    \/ \E kind \in SlaveKinds : Push(kind)
    \/ \E off \in 0 .. MaxStart : ConfigureStart(off)
    \/ \E ok \in BOOLEAN : SafeOp(ok)
    \/ \E ok \in BOOLEAN : Hook(ok)
    \/ \E ok \in BOOLEAN : PreOp(ok)
    \/ \E d \in WkcMiss, resp \in Responses : TxRx("Ok", ReceivedWkc(d), resp)
    \/ \E err \in LrwOutcomes \ {"Ok"} : TxRx(err, 0, ZeroPdi)

Spec == Init /\ [][Next]_vars

\* The life of a group as the example drives it (examples/ec400.rs): slaves
\* are pushed, the group is configured once, and from then on the application
\* calls tx_rx and io in any order.
NextCyclic ==
    \/ \E kind \in SlaveKinds : Push(kind)
    \/ \E off \in 0 .. MaxStart : nconf = 0 /\ ConfigureStart(off)
    \/ \E ok \in BOOLEAN : SafeOp(ok)
    \/ \E ok \in BOOLEAN : Hook(ok)
    \/ \E ok \in BOOLEAN : PreOp(ok)
    \/ \E d \in WkcMiss, resp \in Responses : TxRx("Ok", ReceivedWkc(d), resp)
    \/ \E err \in LrwOutcomes \ {"Ok"} : TxRx(err, 0, ZeroPdi)
    \/ \E idx \in 0 .. MAX_SLAVES : IoCall(idx)

SpecCyclic == Init /\ [][NextCyclic]_vars

\* The PDU loop under requests from any number of concurrent callers.
NextPdu ==
    \/ Acquire
    \/ \E r \in 1 .. MaxRequests : Send(r)
    \/ \E f \in FrameIndex \X (1 .. MaxRequests) : Deliver(f)
    \/ \E r \in 1 .. MaxRequests : Consume(r)
    \/ \E r \in 1 .. MaxRequests : Timeout(r)

SpecPdu == Init /\ [][NextPdu]_vars

\* The example's steady-state loop.
NextJog ==
    \/ JogTick
    \/ \E b0 \in StatusLow, b1 \in StatusHigh : JogCycle("Ok", b0, b1)
    \/ \E err \in TxRxOutcomes \ {"Ok"} : JogCycle(err, 0, 0)

SpecJog == Init /\ [][NextJog]_vars

====
